---- MODULE Spec2Model ----
(***************************************************************************)
(* Model of local-notes-taker: the Recorder (app/recorder.py), the         *)
(* transcriber wrapper (app/transcriber.py) and the LocalNotesApp state    *)
(* machine with its incremental loop, worker pipeline, tray-menu toggle    *)
(* and hotkey/poll dispatch (app/main.py).                                 *)
(*                                                                         *)
(* Threads: the capture callback, the tray-menu thread, the hotkey         *)
(* listener, the poll thread, one incremental loop thread per              *)
(* _start_recording and one worker thread per _stop_recording.             *)
(*                                                                         *)
(* OllamaManager (app/ollama_manager.py) is independent of the audio path: *)
(* it is modelled by its own specification, OllamaSpec, which drives one   *)
(* manager with every sequence of start(), stop() and ensure_model().      *)
(***************************************************************************)
EXTENDS Integers, Sequences, FiniteSets, TLC

\* ------------------------------------------------------------------ bounds
MaxChunks == 2      \* capture-callback deliveries explored
MaxClicks == 1      \* tray-menu toggle clicks explored
MaxToggles == 3     \* tray-menu clicks and hotkey presses explored, together

\* --------------------------------------------------------------- constants
NoStream == 0       \* Recorder._stream is None
IDLE == "IDLE"
RECORDING == "RECORDING"
PROCESSING == "PROCESSING"
SPACE == 0          \* the " " character; every other character is a positive integer

VARIABLES
    state,              \* LocalNotesApp.state
    chunks,             \* Recorder._chunks
    stream,             \* Recorder._stream: NoStream or the id of the tracked stream
    openStreams,        \* ids of the capture streams that are started and not closed
    lock,               \* Recorder._lock: TRUE while a thread holds it
    pending_action,     \* LocalNotesApp._pending_action: TRUE when the toggle is posted
    transcript_so_far,  \* LocalNotesApp._transcript_so_far (a sequence of characters)
    flush_stop,         \* LocalNotesApp._flush_stop (threading.Event flag)
    incremental_temps,  \* LocalNotesApp._incremental_temps
    processing_done,    \* LocalNotesApp._processing_done
    actor,              \* position of the tray-menu thread and of the poll thread
    loops,              \* the live incremental loop threads, in spawn order
    workers,            \* the live _process worker threads, in spawn order
    finished,           \* the last _process thread that has ended: its path and calls
    files,              \* temp WAV files that exist (a file is named by its audio)
    nextChunk,          \* id of the next chunk the device delivers
    clicks,             \* tray-menu clicks so far
    posts,              \* hotkey presses so far
    session,            \* history of the current Recorder session (start .. stop)
    returned,           \* the audio every flush() and stop() has returned, in order
    fresh,              \* a chunk was appended since the last drain or start()
    device,             \* TRUE when an input device is there for sd.InputStream
    invoked,            \* number of posted actions the poll thread has invoked
    mode,               \* OllamaManager.mode
    binary,             \* TRUE when the bundled server binary exists (_find_binary)
    process,            \* OllamaManager._process: NoProcess or the id of the tracked one
    alive,              \* ids of the spawned server processes that are still running
    spawned,            \* number of server processes spawned so far
    mpc,                \* position of the thread that is inside OllamaManager.start()
    now,                \* time.monotonic(), in ticks, since _wait_ready was entered
    outcome,            \* how the last call of the manager ended
    registered,         \* atexit.register(self.stop) has been called
    ollama_host         \* LocalNotesApp._ollama_host: "None" or what start() returned

vars == <<state, chunks, stream, openStreams, lock, pending_action,
          transcript_so_far, flush_stop, incremental_temps, processing_done,
          actor, loops, workers, finished, files, nextChunk,
          clicks, posts, session, returned, fresh, invoked, device,
          mode, binary, process, alive, spawned, mpc, now, outcome,
          registered, ollama_host>>

\* the variables of the recording application
appAllVars == <<state, chunks, stream, openStreams, lock, pending_action,
                transcript_so_far, flush_stop, incremental_temps, processing_done,
                actor, loops, workers, finished, files, nextChunk,
                clicks, posts, session, returned, fresh, invoked, device>>

\* the variables of the inference-server manager
ollamaVars == <<mode, binary, process, alive, spawned, mpc, now, outcome,
                registered, ollama_host>>

recorderVars == <<chunks, stream, openStreams, lock>>
appVars == <<state, pending_action, transcript_so_far, flush_stop,
             incremental_temps, processing_done>>
inputVars == <<nextChunk, clicks, posts>>

\* ----------------------------------------------------------------- helpers
Range(s) == {s[i] : i \in 1..Len(s)}

RECURSIVE Flatten(_)
Flatten(ss) == IF ss = <<>> THEN <<>> ELSE Head(ss) \o Flatten(Tail(ss))

\* str.strip(): drop leading and trailing whitespace
RECURSIVE LStrip(_)
LStrip(t) == IF t # <<>> /\ Head(t) = SPACE THEN LStrip(Tail(t)) ELSE t

RECURSIVE RStrip(_)
RStrip(t) ==
    IF t # <<>> /\ t[Len(t)] = SPACE THEN RStrip(SubSeq(t, 1, Len(t) - 1)) ELSE t

Strip(t) == RStrip(LStrip(t))

\* " ".join(parts)
RECURSIVE Join(_)
Join(parts) ==
    IF parts = <<>> THEN <<>>
    ELSE IF Len(parts) = 1 THEN parts[1]
    ELSE parts[1] \o <<SPACE>> \o Join(Tail(parts))

\* ------------------------------------------------------------- transcriber
\* What the microphone hears: silence first, then speech in every second chunk.
Speech(c) == c % 2 = 0

\* The speech-recognition engine (model.transcribe): one segment per chunk of
\* speech, each with the engine's leading blank; silence yields no segment.
RECURSIVE Segments(_)
Segments(audio) ==
    IF audio = <<>> THEN <<>>
    ELSE (IF Speech(Head(audio)) THEN << <<SPACE, Head(audio)>> >> ELSE <<>>)
         \o Segments(Tail(audio))

\* the body of transcribe(): " ".join(segment.text.strip() for segment in segments)
AsrText(audio) ==
    Join([i \in 1..Len(Segments(audio)) |-> Strip(Segments(audio)[i])])

\* parameters the signature of transcribe() accepts
TranscribeParams == {"audio_path", "model_size"}

\* call sites that bind only the path and the model size
TranscribeCallWithoutLanguage == {"audio_path", "model_size"}

\* arguments the two call sites in main.py bind
TranscribeCallArgs == {"audio_path", "model_size", "language"}

\* transcribe(audio_path, ...): binding an argument the signature does not have
\* raises TypeError before the body runs; a missing file raises as well
transcribe(audio_path, args) ==
    IF ~(args \subseteq TranscribeParams) \/ audio_path \notin files
    THEN [raised |-> TRUE, text |-> <<>>]
    ELSE [raised |-> FALSE, text |-> AsrText(audio_path)]

\* self._transcript_so_far += (" " + text if self._transcript_so_far else text),
\* done only when text.strip() is non-empty
AppendText(acc, text) ==
    IF Strip(text) = <<>> THEN acc
    ELSE IF acc # <<>> THEN acc \o <<SPACE>> \o text ELSE text

\* -------------------------------------------------- inference-server manager
MaxSpawns == 2      \* server processes one manager spawns

NoProcess == 0      \* OllamaManager._process is None
WaitTimeout == 60   \* _wait_ready(timeout=30.0), in ticks of half a second
RequestTimeout == 4 \* requests.get(..., timeout=2), in ticks
SleepTicks == 1     \* time.sleep(0.5), in ticks
COLON == 9          \* the ":" between a model's name and its tag

\* model names: "m", "m:t", "dm" (characters are integers)
ModelNames == {<<1>>, <<1, COLON, 2>>, <<3, 1>>}

\* a in b, for Python strings
IsSubstr(a, b) ==
    \E k \in 0..(Len(b) - Len(a)) : SubSeq(b, k + 1, k + Len(a)) = a

\* any(model in m or m in model for m in models)
AnyListed(model, models) ==
    \E m \in models : IsSubstr(model, m) \/ IsSubstr(m, model)

\* the ways one health poll can end, and the exception classes each raises
\* (requests: ConnectTimeout derives from ConnectionError and Timeout,
\* ReadTimeout from Timeout only)
PollResults == {"ok", "status", "refused", "connect_timeout", "read_timeout"}

PollRaises(r) ==
    CASE r = "refused" -> {"ConnectionError"}
      [] r = "connect_timeout" -> {"ConnectTimeout", "ConnectionError", "Timeout"}
      [] r = "read_timeout" -> {"ReadTimeout", "Timeout"}
      [] OTHER -> {}

\* how long the poll takes: an answer or a refusal is immediate here, a timeout
\* takes the request's whole timeout
PollTicks(r) == IF r \in {"connect_timeout", "read_timeout"} THEN RequestTimeout ELSE 0

\* _wait_ready: except requests.ConnectionError
WaitReadyCatches == {"ConnectionError"}

\* a stop() whose except clause leaves subprocess.TimeoutExpired out
StopCatchesLookupOnly == {"ProcessLookupError"}

\* stop: except (ProcessLookupError, subprocess.TimeoutExpired)
StopCatches == {"ProcessLookupError", "TimeoutExpired"}

\* the record of a call of the manager that has ended (or, for start, is running)
Outcome(op, result) ==
    [op |-> op, result |-> result, killed |-> FALSE, elapsed |-> 0,
     name |-> <<>>, listing |-> {}, reply |-> "none", exit |-> 0, pulls |-> 0,
     host |-> "None"]

NoCall == Outcome("none", "none")

\* OllamaManager.__init__
ManagerInit(m, b) ==
    /\ mode = m
    /\ binary = b
    /\ process = NoProcess
    /\ alive = {}
    /\ spawned = 0
    /\ mpc = "idle"
    /\ now = 0
    /\ outcome = NoCall
    /\ registered = FALSE
    /\ ollama_host = "None"

\* the manager of the application before _start_ollama has run (default mode)
ManagerIdle == ManagerInit("external", FALSE)

\* the address of an external server
DefaultHost == "http://127.0.0.1:11434"

\* the address of the bundled server, on the free port found at construction
BundledHost == "http://127.0.0.1:port"

\* the host property
host == IF mode = "bundled" THEN BundledHost ELSE DefaultHost

\* summarize: ollama.Client(host=host) if host, else the ollama module, whose
\* client talks to the default address
SummarizeAddress(h) == IF h = "None" THEN DefaultHost ELSE h

\* a manager that spawns a server in either mode
AlwaysManaged(m) == TRUE

\* start(): if self.mode != "bundled": return self._host
IsManaged(m) == m = "bundled"

\* a start() that loses the handle of the process it spawned
TrackNothing(p) == NoProcess

\* self._process = subprocess.Popen(...)
TrackSpawned(p) == p

\* the running property
running == process # NoProcess /\ process \in alive

\* start(): external mode returns the host; bundled mode resolves the binary
\* (FileNotFoundError when there is none), spawns the server, tracks it and
\* enters _wait_ready
OllamaStart ==
    /\ mpc = "idle"
    /\ IF ~IsManaged(mode)
       THEN /\ outcome' = [Outcome("start", "returned") EXCEPT !.host = host]
            /\ ollama_host' = host
            /\ UNCHANGED <<process, alive, spawned, mpc, now, registered>>
       ELSE IF ~binary
       THEN /\ outcome' = Outcome("start", "FileNotFoundError")
            /\ UNCHANGED <<process, alive, spawned, mpc, now, registered, ollama_host>>
       ELSE /\ spawned < MaxSpawns
            /\ process' = TrackSpawned(spawned + 1)
            /\ alive' = alive \cup {spawned + 1}
            /\ spawned' = spawned + 1
            /\ registered' = TRUE
            /\ mpc' = "wait"
            /\ now' = 0
            /\ outcome' = Outcome("start", "running")
            /\ UNCHANGED ollama_host
    /\ UNCHANGED <<appAllVars, mode, binary>>

\* _wait_ready: while time.monotonic() < deadline; TimeoutError after the loop
WaitTest ==
    /\ mpc = "wait"
    /\ IF now < WaitTimeout
       THEN /\ mpc' = "poll"
            /\ UNCHANGED <<now, outcome>>
       ELSE /\ mpc' = "idle"
            /\ outcome' = [Outcome("start", "TimeoutError") EXCEPT !.elapsed = now]
            /\ now' = 0
    /\ UNCHANGED <<appAllVars, mode, binary, process, alive, spawned, registered, ollama_host>>

\* _wait_ready: one requests.get; status 200 returns, a caught exception or
\* another status sleeps, any other exception leaves start()
WaitPoll ==
    /\ mpc = "poll"
    /\ \E r \in PollResults :
         LET t == now + PollTicks(r) IN
         IF r = "ok"
         THEN /\ mpc' = "idle"
              /\ outcome' = [Outcome("start", "returned") EXCEPT
                                !.elapsed = t, !.host = host]
              /\ ollama_host' = host
              /\ now' = 0
         ELSE IF PollRaises(r) = {} \/ PollRaises(r) \cap WaitReadyCatches # {}
         THEN /\ mpc' = "wait"
              /\ now' = t + SleepTicks
              /\ UNCHANGED <<outcome, ollama_host>>
         ELSE /\ mpc' = "idle"
              /\ outcome' = [Outcome("start", "ReadTimeout") EXCEPT !.elapsed = t]
              /\ now' = 0
              /\ UNCHANGED ollama_host
    /\ UNCHANGED <<appAllVars, mode, binary, process, alive, spawned, registered>>

\* a spawned server exits by itself
ProcessExit ==
    /\ \E p \in alive : alive' = alive \ {p}
    /\ UNCHANGED <<appAllVars, mode, binary, process, spawned, mpc, now, outcome,
                   registered, ollama_host>>

\* stop(): nothing tracked returns at once; else terminate() and wait(timeout=5)
\* (the process exits in time, or TimeoutExpired; for a process already gone
\* nothing, or ProcessLookupError), the except clause kills, and the process is
\* untracked. An exception the clause does not name leaves stop().
OllamaStop ==
    /\ mpc = "idle"
    /\ IF process = NoProcess
       THEN /\ outcome' = Outcome("stop", "returned")
            /\ UNCHANGED <<process, alive>>
       ELSE \E e \in IF process \in alive
                     THEN {"none", "TimeoutExpired"}
                     ELSE {"none", "ProcessLookupError"} :
              IF e = "none"
              THEN /\ alive' = alive \ {process}
                   /\ process' = NoProcess
                   /\ outcome' = Outcome("stop", "returned")
              ELSE IF e \in StopCatches
              THEN /\ alive' = alive \ {process}
                   /\ process' = NoProcess
                   /\ outcome' = [Outcome("stop", "returned") EXCEPT
                                     !.killed = process \in alive]
              ELSE /\ outcome' = Outcome("stop", e)
                   /\ UNCHANGED <<process, alive>>
    /\ UNCHANGED <<appAllVars, mode, binary, spawned, mpc, now, registered, ollama_host>>

\* ensure_model(model): the listing is asked for; a model found in it returns;
\* otherwise (also when the listing fails) the binary is resolved and
\* "ollama pull" is run with check=True
ensure_model(model, models, reply, exit) ==
    LET call == [Outcome("ensure_model", "returned") EXCEPT
                    !.name = model, !.listing = models, !.reply = reply,
                    !.exit = exit, !.host = host]
    IN
    IF reply = "ok" /\ AnyListed(model, models) THEN call
    ELSE IF ~binary THEN [call EXCEPT !.result = "FileNotFoundError"]
    ELSE IF exit # 0 THEN [call EXCEPT !.pulls = 1, !.result = "CalledProcessError"]
    ELSE [call EXCEPT !.pulls = 1]

EnsureModel ==
    /\ mpc = "idle"
    /\ \E model \in ModelNames, models \in SUBSET ModelNames,
          reply \in {"ok", "status", "error"}, exit \in {0, 1} :
         outcome' = ensure_model(model, models, reply, exit)
    /\ UNCHANGED <<appAllVars, mode, binary, process, alive, spawned, mpc, now,
                   registered, ollama_host>>

\* _process after ensure_model has returned:
\* summarize(transcript, model=ollama_model, ..., host=self._ollama_host)
SummarizeCall ==
    /\ outcome.op = "ensure_model"
    /\ outcome.result = "returned"
    /\ outcome' = [Outcome("summarize", "returned") EXCEPT
                      !.name = outcome.name,
                      !.host = SummarizeAddress(ollama_host)]
    /\ UNCHANGED <<appAllVars, mode, binary, process, alive, spawned, mpc, now,
                   registered, ollama_host>>

\* ---------------------------------------------------------------- recorder
NewSession == [captured |-> <<>>, drains |-> <<>>, stop |-> "none"]

\* flush() that forgets to empty the buffer
flush_keep(chs) == chs

\* self._chunks = [] at the end of flush()
flush_reset(chs) == <<>>

\* self._chunks = [] at the end of stop()
stop_reset(chs) == <<>>

\* LocalNotesApp.__init__: the application before any toggle
AppInit ==
    /\ state = IDLE
    /\ chunks = <<>>
    /\ stream = NoStream
    /\ openStreams = {}
    /\ lock = FALSE
    /\ pending_action = FALSE
    /\ transcript_so_far = <<>>
    /\ flush_stop = FALSE
    /\ incremental_temps = <<>>
    /\ processing_done = FALSE
    /\ actor = [a \in {"menu", "poll"} |-> "idle"]
    /\ loops = <<>>
    /\ workers = <<>>
    /\ finished = [any |-> FALSE, audio |-> <<>>, calls |-> <<>>]
    /\ files = {}
    /\ nextChunk = 1
    /\ clicks = 0
    /\ posts = 0
    /\ session = NewSession
    /\ returned = <<>>
    /\ fresh = FALSE
    /\ invoked = 0
    /\ device \in BOOLEAN

Init == AppInit /\ ManagerIdle

\* Recorder._callback: the device delivers one chunk; appended without the lock
Callback ==
    /\ openStreams # {}
    /\ nextChunk <= MaxChunks
    /\ chunks' = Append(chunks, nextChunk)
    /\ nextChunk' = nextChunk + 1
    /\ session' = IF session.stop = "none"
                  THEN [session EXCEPT !.captured = Append(@, nextChunk)]
                  ELSE session
    /\ fresh' = TRUE
    /\ UNCHANGED <<ollamaVars, device, invoked, stream, openStreams, lock, appVars, actor, loops,
                   workers, finished, files, clicks, posts, returned>>

\* ------------------------------------------------- tray menu, hotkey, poll
\* pystray invokes _on_toggle_recording on its own thread
MenuClick ==
    /\ actor["menu"] = "idle"
    /\ clicks < MaxClicks
    /\ clicks + posts < MaxToggles
    /\ clicks' = clicks + 1
    /\ actor' = [actor EXCEPT !["menu"] = "check"]
    /\ UNCHANGED <<ollamaVars, device, fresh, invoked, recorderVars, appVars, loops, workers, finished, files, nextChunk, posts, session, returned>>

\* _on_hotkey, on the listener thread
OnHotkey ==
    /\ clicks + posts < MaxToggles
    /\ posts' = posts + 1
    /\ pending_action' = TRUE
    /\ UNCHANGED <<ollamaVars, device, fresh, invoked, recorderVars, state, transcript_so_far, flush_stop,
                   incremental_temps, processing_done, actor, loops, workers, finished,
                   files, nextChunk, clicks, session,
                   returned>>

\* _poll_loop: action = self._pending_action; if action is not None
PollRead ==
    /\ actor["poll"] = "idle"
    /\ pending_action
    /\ actor' = [actor EXCEPT !["poll"] = "clear"]
    /\ UNCHANGED <<ollamaVars, device, fresh, invoked, recorderVars, appVars, loops, workers, finished, files, inputVars, session, returned>>

\* a poll loop that leaves the posted action in the slot
ActionKept == TRUE

\* self._pending_action = None: the slot is emptied
NoAction == FALSE

\* _poll_loop: self._pending_action = None; then action() is entered
PollClear ==
    /\ actor["poll"] = "clear"
    /\ pending_action' = NoAction
    /\ actor' = [actor EXCEPT !["poll"] = "check"]
    /\ invoked' = invoked + 1
    /\ UNCHANGED <<ollamaVars, device, fresh, recorderVars, state, transcript_so_far, flush_stop,
                   incremental_temps, processing_done, loops, workers, finished, files,
                   inputVars, session, returned>>

\* the branch _on_toggle_recording / _toggle_from_hotkey takes for a state
ToggleBranch(st) ==
    IF st = IDLE THEN "start"
    ELSE IF st = RECORDING THEN "stop"
    ELSE "idle"

\* _on_toggle_recording / _toggle_from_hotkey: the test of self.state
ToggleCheck(a) ==
    /\ actor[a] = "check"
    /\ actor' = [actor EXCEPT ![a] = ToggleBranch(state)]
    /\ UNCHANGED <<ollamaVars, device, fresh, invoked, recorderVars, appVars, loops, workers, finished, files, inputVars, session, returned>>

\* _start_recording up to the call of recorder.start()
StartRecording(a) ==
    /\ actor[a] = "start"
    /\ state' = RECORDING
    /\ transcript_so_far' = <<>>
    /\ flush_stop' = FALSE
    /\ incremental_temps' = <<>>
    /\ actor' = [actor EXCEPT ![a] = "rstart"]
    /\ UNCHANGED <<ollamaVars, device, fresh, invoked, recorderVars, pending_action, processing_done, loops,
                   workers, finished, files, inputVars, session, returned>>

\* sd.InputStream(...): a stream object distinct from every open one
NewStream == CHOOSE n \in 1..(Cardinality(openStreams) + 1) : n \notin openStreams

\* where a toggling thread is after its action has raised: _poll_loop has no
\* try around action(), so the poll thread ends; the tray library logs the
\* exception of a menu callback and its thread goes on
AfterRaise(a) == IF a = "poll" THEN "dead" ELSE "idle"

\* Recorder.start (under the lock), then the incremental loop thread is started.
\* With no input device sd.InputStream raises after self._chunks = []: the
\* exception leaves start(), _start_recording and the toggle.
RecorderStart(a) ==
    /\ actor[a] = "rstart"
    /\ ~lock
    /\ chunks' = <<>>
    /\ session' = NewSession
    /\ fresh' = FALSE
    /\ IF device
       THEN /\ stream' = NewStream
            /\ openStreams' = openStreams \cup {NewStream}
            /\ loops' = Append(loops, [pc |-> "top", audio |-> <<>>])
            /\ actor' = [actor EXCEPT ![a] = "idle"]
       ELSE /\ actor' = [actor EXCEPT ![a] = AfterRaise(a)]
            /\ UNCHANGED <<stream, openStreams, loops>>
    /\ UNCHANGED <<ollamaVars, device, invoked, lock, appVars, workers, finished, files, inputVars,
                   returned>>

\* _stop_recording: state, flag, and the worker thread is started
StopRecording(a) ==
    /\ actor[a] = "stop"
    /\ state' = PROCESSING
    /\ processing_done' = FALSE
    /\ workers' = Append(workers, [pc |-> "set", audio |-> <<>>, text |-> <<>>, calls |-> <<>>])
    /\ actor' = [actor EXCEPT ![a] = "idle"]
    /\ UNCHANGED <<ollamaVars, device, fresh, invoked, finished, recorderVars, pending_action, transcript_so_far, flush_stop,
                   incremental_temps, loops, files, inputVars,
                   session, returned>>

\* --------------------------------------------------------- incremental loop
RemoveAt(seq, i) == SubSeq(seq, 1, i - 1) \o SubSeq(seq, i + 1, Len(seq))

\* the loop thread i moves on; a thread that has ended leaves the list
SetLoop(i, pc, audio) ==
    IF pc = "dead" THEN RemoveAt(loops, i)
    ELSE [loops EXCEPT ![i] = [pc |-> pc, audio |-> audio]]

\* while not self._flush_stop.wait(10): the flag is read on entry to wait(). The
\* loop comes here at its start, after its body, and by "continue" when flush()
\* has returned None (pc "none").
LoopEnterWait(i) ==
    /\ loops[i].pc \in {"top", "none"}
    /\ loops' = SetLoop(i, IF flush_stop THEN "dead" ELSE "waiting", <<>>)
    /\ UNCHANGED <<ollamaVars, device, fresh, invoked, recorderVars, appVars, actor, workers, finished, files, inputVars, session, returned>>

\* wait(10) times out and returns False: the loop body is entered
LoopTimeout(i) ==
    /\ loops[i].pc = "waiting"
    /\ loops' = SetLoop(i, "flush", <<>>)
    /\ UNCHANGED <<ollamaVars, device, fresh, invoked, recorderVars, appVars, actor, workers, finished, files, inputVars, session, returned>>

\* Recorder.flush: lock taken; None is returned when the buffer is empty (pc
\* "none"), else np.concatenate
LoopFlush(i) ==
    /\ loops[i].pc = "flush"
    /\ ~lock
    /\ IF chunks = <<>>
       THEN /\ loops' = SetLoop(i, "none", <<>>)
            /\ lock' = lock
       ELSE /\ loops' = SetLoop(i, "drain", chunks)
            /\ lock' = TRUE
    /\ UNCHANGED <<ollamaVars, device, fresh, invoked, chunks, stream, openStreams, appVars, actor, workers, finished, files,
                   inputVars, session, returned>>

\* Recorder.flush: self._chunks = [], lock released, the WAV written, path returned
LoopDrain(i) ==
    /\ loops[i].pc = "drain"
    /\ chunks' = flush_reset(chunks)
    /\ lock' = FALSE
    /\ files' = files \cup {loops[i].audio}
    /\ session' = IF session.stop = "none"
                  THEN [session EXCEPT !.drains =
                          Append(@, [kind |-> "flush", audio |-> loops[i].audio])]
                  ELSE session
    /\ returned' = Append(returned, loops[i].audio)
    /\ loops' = SetLoop(i, "transcribe", loops[i].audio)
    /\ fresh' = FALSE
    /\ UNCHANGED <<ollamaVars, device, invoked, stream, openStreams, appVars, actor, workers, finished, inputVars>>

\* the loop body after flush: transcribe, append the text, and in the finally
\* clause record the path. An exception leaves through the finally clause and
\* ends the thread.
LoopTranscribe(i) ==
    LET r == transcribe(loops[i].audio, TranscribeCallArgs) IN
    /\ loops[i].pc \in {"transcribe", "finally"}
    /\ IF loops[i].pc = "transcribe" /\ ~r.raised
       THEN /\ transcript_so_far' = AppendText(transcript_so_far, r.text)
            /\ loops' = SetLoop(i, "finally", loops[i].audio)
            /\ UNCHANGED incremental_temps
       ELSE /\ incremental_temps' = Append(incremental_temps, loops[i].audio)
            /\ loops' = SetLoop(i, IF loops[i].pc = "finally" THEN "top" ELSE "dead",
                                <<>>)
            /\ UNCHANGED transcript_so_far
    /\ UNCHANGED <<ollamaVars, device, fresh, invoked, recorderVars, state, pending_action, flush_stop,
                   processing_done, actor, workers, finished, files, inputVars,
                   session, returned>>

\* ------------------------------------------------------- worker (_process)
\* a call of an external collaborator, as the worker's history records it
Call(op, msg, text) == [op |-> op, msg |-> msg, text |-> text]

\* the except clause: show_notification("Local Notes - Error", str(e))
ErrorNotice(msg) == Call("show_notification_error", msg, <<>>)

\* a pipeline whose exception ends the thread without the finally clause
OnRaiseSkipsFinally == "done"

\* a pipeline that reports the exception and goes on with the next step
OnRaiseGoesOn == "ensure"

\* where control goes when a pipeline step raises: except clause, then finally
OnRaise == "finally"

\* self._flush_stop.set(): the flag is set and every thread blocked in wait() is
\* woken; wait() then returns True and the loop ends
ProcessSetFlag(j) ==
    /\ workers[j].pc = "set"
    /\ flush_stop' = TRUE
    /\ LET awake(l) == l.pc # "waiting" IN loops' = SelectSeq(loops, awake)
    /\ workers' = [workers EXCEPT ![j].pc = "stop"]
    /\ UNCHANGED <<ollamaVars, device, fresh, invoked, finished, recorderVars, state, pending_action, transcript_so_far,
                   incremental_temps, processing_done, actor, files, inputVars, session, returned>>

\* Recorder.stop: lock taken, the stream stopped and closed; with an empty buffer
\* RuntimeError("No audio recorded") is raised, else np.concatenate
RecorderStop(j) ==
    /\ workers[j].pc = "stop"
    /\ ~lock
    /\ openStreams' = openStreams \ {stream}
    /\ stream' = NoStream
    /\ IF chunks = <<>>
       THEN /\ workers' = [workers EXCEPT
                  ![j].pc = OnRaise,
                  ![j].calls = Append(@, ErrorNotice("No audio recorded"))]
            /\ session' = IF session.stop = "none"
                          THEN [session EXCEPT !.stop = "raised"] ELSE session
            /\ lock' = lock
       ELSE /\ workers' = [workers EXCEPT ![j].pc = "stop2", ![j].audio = chunks]
            /\ session' = session
            /\ lock' = TRUE
    /\ UNCHANGED <<ollamaVars, device, fresh, invoked, finished, chunks, appVars, actor, loops, files, inputVars,
                   returned>>

\* Recorder.stop: the WAV written, self._chunks = [], lock released, path returned
RecorderStopWrite(j) ==
    /\ workers[j].pc = "stop2"
    /\ files' = files \cup {workers[j].audio}
    /\ chunks' = stop_reset(chunks)
    /\ lock' = FALSE
    /\ session' = IF session.stop = "none"
                  THEN [session EXCEPT
                          !.stop = "ok",
                          !.drains = Append(@, [kind |-> "stop",
                                                audio |-> workers[j].audio])]
                  ELSE session
    /\ returned' = Append(returned, workers[j].audio)
    /\ workers' = [workers EXCEPT ![j].pc = "transcribe"]
    /\ fresh' = FALSE
    /\ UNCHANGED <<ollamaVars, device, invoked, finished, stream, openStreams, appVars, actor, loops, inputVars>>

\* summarize(): the notes the language model writes for a transcript
Summary(transcript) == <<SPACE>> \o transcript

\* _process from the tail transcription to the end of the try block
ProcessPipeline(j) ==
    LET w == workers[j]
        r == transcribe(w.audio, TranscribeCallArgs)
        acc == AppendText(transcript_so_far, r.text)
        step(pc, call) == [workers EXCEPT ![j].pc = pc,
                                          ![j].calls = Append(@, call)]
    IN
    /\ w.pc \in {"transcribe", "ensure", "summarize", "save", "copy", "notify",
                 "paste"}
    /\ transcript_so_far' = IF w.pc = "transcribe" /\ ~r.raised
                            THEN acc ELSE transcript_so_far
    /\ workers' =
         CASE w.pc = "transcribe" /\ r.raised ->
                  step(OnRaise, ErrorNotice("unexpected keyword argument"))
           [] w.pc = "transcribe" /\ ~r.raised /\ Strip(acc) = <<>> ->
                  step("finally", Call("show_notification", "No speech detected.",
                                       <<>>))
           [] w.pc = "transcribe" /\ ~r.raised /\ Strip(acc) # <<>> ->
                  [workers EXCEPT ![j].pc = "ensure", ![j].text = Strip(acc)]
           [] w.pc = "ensure" ->
                  step("summarize", Call("ensure_model", "", <<>>))
           [] w.pc = "summarize" ->
                  step("save", Call("summarize", "", w.text))
           [] w.pc = "save" ->
                  step("copy", Call("save_transcript", "", w.text))
           [] w.pc = "copy" ->
                  step("notify", Call("copy_to_clipboard", "", Summary(w.text)))
           [] w.pc = "notify" ->
                  step("paste", Call("show_notification",
                                     "Summary copied to clipboard!", <<>>))
           [] w.pc = "paste" ->
                  step("finally", Call("auto_paste", "", <<>>))
    /\ UNCHANGED <<ollamaVars, device, fresh, invoked, finished, recorderVars, state, pending_action, flush_stop,
                   incremental_temps, processing_done, actor, loops, files,
                   inputVars, session, returned>>

\* the finally clause: _processing_done, os.unlink of every recorded temp and of
\* audio_path, then _reset()
ProcessFinally(j) ==
    /\ workers[j].pc = "finally"
    /\ processing_done' = TRUE
    /\ files' = (files \ Range(incremental_temps)) \ {workers[j].audio}
    /\ state' = IDLE
    /\ workers' = RemoveAt(workers, j)
    /\ finished' = [any |-> TRUE, audio |-> workers[j].audio,
                    calls |-> workers[j].calls]
    /\ UNCHANGED <<ollamaVars, device, fresh, invoked, recorderVars, pending_action, transcript_so_far, flush_stop,
                   incremental_temps, actor, loops, inputVars,
                   session, returned>>

\* ------------------------------------------------------------ specification
Next ==
    \/ Callback
    \/ MenuClick
    \/ OnHotkey
    \/ PollRead
    \/ PollClear
    \/ \E a \in {"menu", "poll"} : ToggleCheck(a)
    \/ \E a \in {"menu", "poll"} : StartRecording(a)
    \/ \E a \in {"menu", "poll"} : RecorderStart(a)
    \/ \E a \in {"menu", "poll"} : StopRecording(a)
    \/ \E i \in 1..Len(loops) : LoopEnterWait(i)
    \/ \E i \in 1..Len(loops) : LoopTimeout(i)
    \/ \E i \in 1..Len(loops) : LoopFlush(i)
    \/ \E i \in 1..Len(loops) : LoopDrain(i)
    \/ \E i \in 1..Len(loops) : LoopTranscribe(i)
    \/ \E j \in 1..Len(workers) : ProcessSetFlag(j)
    \/ \E j \in 1..Len(workers) : RecorderStop(j)
    \/ \E j \in 1..Len(workers) : RecorderStopWrite(j)
    \/ \E j \in 1..Len(workers) : ProcessPipeline(j)
    \/ \E j \in 1..Len(workers) : ProcessFinally(j)

Spec == Init /\ [][Next]_vars

\* scheduling: every started worker thread keeps running, and a loop thread
\* inside flush() leaves the lock
WorkerStep(j) ==
    \/ ProcessSetFlag(j)
    \/ RecorderStop(j)
    \/ RecorderStopWrite(j)
    \/ ProcessPipeline(j)
    \/ ProcessFinally(j)

LiveSpec ==
    /\ Spec
    /\ WF_vars(\E j \in 1..Len(workers) : WorkerStep(j))
    /\ WF_vars(\E i \in 1..Len(loops) : LoopDrain(i))

\* scheduling of the dispatch: besides the workers and the loop's drain, the
\* poll thread, while it lives, keeps running (its 0.15 s tick and the toggle
\* it has entered)
PollStep ==
    \/ PollRead
    \/ PollClear
    \/ ToggleCheck("poll")
    \/ StartRecording("poll")
    \/ RecorderStart("poll")
    \/ StopRecording("poll")

DispatchSpec == LiveSpec /\ WF_vars(PollStep)

\* the manager alone, driven by any sequence of start(), stop() and
\* ensure_model() calls, in either mode, with or without a bundled binary
OllamaInit ==
    /\ AppInit
    /\ \E m \in {"bundled", "external"}, b \in BOOLEAN : ManagerInit(m, b)

OllamaNext ==
    \/ OllamaStart
    \/ WaitTest
    \/ WaitPoll
    \/ ProcessExit
    \/ OllamaStop
    \/ EnsureModel
    \/ SummarizeCall

OllamaSpec == OllamaInit /\ [][OllamaNext]_vars


\* ------------------------------------------------------------------ claims
\* runs in which only the poll thread toggles (no tray-menu click)
HotkeyOnly == clicks = 0

SessionAudio == [i \in 1..Len(session.drains) |-> session.drains[i].audio]

\* C1: when stop() of a session has returned or raised, the audio returned by
\* the session's flushes followed by the audio returned by stop equals, in
\* order, the chunks the callback delivered during the session.
AudioConservation ==
    (HotkeyOnly /\ session.stop # "none") =>
        Flatten(SessionAudio) = session.captured

\* C2: no chunk is returned by two drains, nor twice by one: the audio returned
\* by all flush() and stop() calls holds each chunk at most once.
NoChunkDrainedTwice ==
    /\ \A i, k \in 1..Len(returned) :
          i # k => Range(returned[i]) \cap Range(returned[k]) = {}
    /\ \A i \in 1..Len(returned) :
          Cardinality(Range(returned[i])) = Len(returned[i])

\* a session in which a flush and then stop each returned audio
TwoDrainsReturned ==
    /\ session.stop = "ok"
    /\ Len(session.drains) >= 2
    /\ session.drains[1].kind = "flush"

\* C3: the state changes only along Idle->Recording, Recording->Processing and
\* Processing->Idle.
OnlyCycleTransitions ==
    [][state' # state =>
          <<state, state'>> \in {<<IDLE, RECORDING>>, <<RECORDING, PROCESSING>>,
                                 <<PROCESSING, IDLE>>}]_vars

\* C4: whenever the state is Processing it eventually is Idle again, whether the
\* pipeline steps return or raise.
ProcessingLeadsToIdle == (state = PROCESSING) ~> (state = IDLE)

\* a worker whose pipeline raised has run its cleanup and the state is Idle
RaisedPipelineBackToIdle ==
    /\ state = IDLE
    /\ finished.calls # <<>>
    /\ finished.calls[1].op = "show_notification_error"

Quiescent ==
    /\ state = IDLE
    /\ \A a \in {"menu", "poll"} : actor[a] = "idle"
    /\ workers = <<>>
    /\ loops = <<>>

\* C5: once the pipeline has ended and the state is Idle again (all loop and
\* worker threads finished), no temp audio file exists.
NoTempSurvives == (HotkeyOnly /\ Quiescent /\ finished.any) => files = {}

\* the texts the session's drained intervals transcribe to, in drain order
SessionTexts == [i \in 1..Len(SessionAudio) |-> AsrText(SessionAudio[i])]

NonEmpty(t) == t # <<>>

\* the transcript of the session: its non-empty texts joined by single spaces
SessionTranscript == Join(SelectSeq(SessionTexts, NonEmpty))

\* the pipeline of the current session has ended, and its stop() returned a tail
\* (with the poll thread alone toggling, sessions and their workers do not overlap)
PipelineEnded ==
    /\ HotkeyOnly
    /\ workers = <<>>
    /\ finished.any
    /\ session.stop = "ok"

EndsWith(t, suffix) ==
    /\ Len(t) >= Len(suffix)
    /\ SubSeq(t, Len(t) - Len(suffix) + 1, Len(t)) = suffix

\* C6: the tail transcription is appended to the accumulator as the last append
\* of the session: when the pipeline has ended and the tail holds speech, the
\* accumulator ends with the tail's text.
TailAppendedLast ==
    (PipelineEnded /\ AsrText(finished.audio) # <<>>) =>
        EndsWith(transcript_so_far, AsrText(finished.audio))

\* C7: the string passed to summarize is exactly the non-empty texts of the
\* session's flush intervals and tail, in order, joined by single spaces.
TranscriptExactness ==
    (PipelineEnded /\ SessionTranscript # <<>>) =>
        \E k \in 1..Len(finished.calls) :
            /\ finished.calls[k].op = "summarize"
            /\ finished.calls[k].text = SessionTranscript

\* C8: when every transcription of the session is empty, the pipeline's only
\* collaborator call is the "no speech detected" notice.
NoSpeechPath ==
    (PipelineEnded /\ SessionTranscript = <<>>) =>
        finished.calls = <<Call("show_notification", "No speech detected.", <<>>)>>

\* C9: stop() does not raise when an earlier flush() of the session returned audio.
StopAfterFlushSucceeds ==
    (HotkeyOnly /\ \E i \in 1..Len(session.drains) : session.drains[i].kind = "flush")
        => session.stop # "raised"

\* C10: stop() raises exactly when nothing was captured in the session, and after
\* a raising stop() the recorder holds no stream and no stream is open.
StopFailsIffNothingCaptured ==
    (HotkeyOnly /\ session.stop # "none") =>
        /\ session.stop = "raised" <=> session.captured = <<>>
        /\ session.stop = "raised" => (stream = NoStream /\ openStreams = {})

\* C11: a flush() called when no chunk has been appended since the previous
\* drain or since start() returns None and leaves the buffer and the capture
\* stream unchanged (so of two flush() calls with no callback between them the
\* second returns None).
FlushNoneWhenNothingNew ==
    [][\A i \in 1..Len(loops) :
          (~fresh /\ LoopFlush(i)) =>
              /\ loops'[i].pc = "none"
              /\ UNCHANGED <<chunks, stream, openStreams>>]_vars

\* a flush() has returned None after an earlier flush() of the same session
\* drained the buffer, with no callback in between
SecondFlushReturnedNone ==
    /\ \E i \in 1..Len(loops) : loops[i].pc = "none"
    /\ ~fresh
    /\ session.stop = "none"
    /\ session.drains # <<>>

\* C12: at most one capture stream is open at any instant, and Recorder.start()
\* is never entered while a stream of an earlier start() is still open.
OneCaptureStream ==
    /\ Cardinality(openStreams) <= 1
    /\ \A a \in {"menu", "poll"} : actor[a] = "rstart" => openStreams = {}

\* C13: a toggle taken while the state is Processing changes nothing and starts
\* no thread; _start_recording is entered only in state Idle and
\* _stop_recording only in state Recording.
ToggleGuards ==
    [][/\ \A a \in {"menu", "poll"} :
             (state = PROCESSING /\ ToggleCheck(a)) =>
                 /\ actor'[a] = "idle"
                 /\ UNCHANGED <<appVars, recorderVars, loops, workers>>
       /\ (\E a \in {"menu", "poll"} : StartRecording(a)) => state = IDLE
       /\ (\E a \in {"menu", "poll"} : StopRecording(a)) => state = RECORDING]_vars

\* C18: Recorder.start() issued while the stream of a previous start() has not
\* been stopped raises: it leaves that stream and the buffer unchanged (and
\* _start_recording, aborted by the exception, starts no loop thread).
StartWhileCapturingRefused ==
    [][(stream # NoStream /\ \E a \in {"menu", "poll"} : RecorderStart(a)) =>
          UNCHANGED <<stream, openStreams, chunks, loops>>]_vars

\* C19: a hotkey press changes nothing but the pending-action slot; the slot is
\* emptied only by the poll thread, in the step before it invokes the action;
\* and the poll thread never invokes more actions than were posted.
HotkeyDeferredToPoll ==
    [][/\ posts' # posts =>
             /\ pending_action'
             /\ UNCHANGED <<recorderVars, state, transcript_so_far, flush_stop,
                            incremental_temps, processing_done, actor, loops,
                            workers, files, invoked>>
       /\ (pending_action /\ ~pending_action') =>
             (actor["poll"] = "clear" /\ actor'["poll"] = "check")
       /\ invoked' # invoked => (pending_action /\ actor'["poll"] = "check")
       /\ invoked' <= posts']_vars

\* two presses, the second overwriting the first in the slot before the poll
\* thread emptied it: one action was invoked, and nothing is pending
PressOverwrittenInvokedOnce ==
    /\ posts = 2
    /\ invoked = 1
    /\ ~pending_action
    /\ actor["poll"] = "idle"
    /\ clicks = 0
    /\ state = RECORDING

\* C20: once the worker has set the cancellation flag, the loop does not call
\* Recorder.flush() again (runs in which only the poll thread toggles, so that
\* the flag belongs to the loop's own session).
NoFlushAfterCancel ==
    [][HotkeyOnly => \A i \in 1..Len(loops) : ~(flush_stop /\ LoopFlush(i))]_vars

\* C14: stop() never raises; after it no process is tracked, running is false
\* and the process it tracked is not alive (it exited on terminate, had exited
\* before, or was killed when the grace period ran out); with no tracked process
\* stop() changes nothing.
StopTotal ==
    [][OllamaStop =>
          /\ outcome'.op = "stop"
          /\ outcome'.result = "returned"
          /\ process' = NoProcess
          /\ ~running'
          /\ process # NoProcess => process \notin alive'
          /\ process = NoProcess => UNCHANGED <<alive, spawned>>]_vars

\* a stop() whose wait ran out has force-killed the server and untracked it
StopForceKilled ==
    /\ outcome.op = "stop"
    /\ outcome.killed
    /\ process = NoProcess
    /\ alive = {}

\* a model's name without its tag
RECURSIVE Base(_)
Base(n) == IF n = <<>> \/ Head(n) = COLON THEN <<>> ELSE <<Head(n)>> \o Base(Tail(n))

IsPrefix(a, b) == Len(a) <= Len(b) /\ SubSeq(b, 1, Len(a)) = a

\* the listing holds the name itself, or the name with or without a tag
ListedExactOrTag(name, listing) ==
    \E m \in listing :
        m = name \/ (Base(m) = Base(name) /\ (m = Base(m) \/ name = Base(name)))

\* the listing holds a name that matches under any reading of "exact, prefix or
\* tag-insensitive": equal without tags, or one a prefix of the other
ListedLoosely(name, listing) ==
    \E m \in listing :
        Base(m) = Base(name) \/ IsPrefix(name, m) \/ IsPrefix(m, name)

\* C15: with a listing that answers and a pull binary at hand, ensure_model pulls
\* exactly when the listing does not hold the name: no pull when it holds it
\* (exactly or up to the tag), one pull when it holds no match at all, and a
\* non-zero exit of the pull is raised to the caller.
PullIffNotListed ==
    (outcome.op = "ensure_model" /\ outcome.reply = "ok" /\ binary) =>
        /\ ListedExactOrTag(outcome.name, outcome.listing) => outcome.pulls = 0
        /\ ~ListedLoosely(outcome.name, outcome.listing) => outcome.pulls = 1
        /\ (outcome.pulls = 1 /\ outcome.exit # 0) => outcome.result # "returned"

\* C16: a managed start() that ends without any health poll having succeeded
\* ends with the startup-timeout error, and not before the deadline.
StartupTimeoutAtDeadline ==
    (outcome.op = "start" /\ mode = "bundled" /\ binary
        /\ outcome.result \notin {"running", "returned"}) =>
        /\ outcome.result = "TimeoutError"
        /\ outcome.elapsed >= WaitTimeout

\* C17: every spawned server process that is still alive is the tracked one.
OneLiveProcess == \A p \in alive : p = process

\* C21: a loop thread whose session was cancelled exits, so at most one loop
\* thread is alive: in particular no two loop threads are ever waiting on the
\* cancellation flag at the same time (runs in which only the poll thread
\* toggles, so that sessions follow one another).
OneLoopWaiting ==
    HotkeyOnly =>
        Cardinality({i \in 1..Len(loops) : loops[i].pc = "waiting"}) <= 1

\* the characters of a text other than the joining blanks: the chunks it was
\* transcribed from
SpokenChunks(t) == {t[k] : k \in 1..Len(t)} \ {SPACE}

\* C22: _start_recording leaves the accumulator empty, and the accumulator only
\* ever holds text transcribed from chunks captured in the current session.
TranscriptOfSessionOnly ==
    [][/\ (\E a \in {"menu", "poll"} : StartRecording(a)) => transcript_so_far' = <<>>
       /\ SpokenChunks(transcript_so_far') \subseteq Range(session'.captured)]_vars

\* a new session is recording, and a loop thread of the earlier session has
\* since finished with a flush of that earlier session which holds speech: its
\* path was recorded after the reset, and the accumulator is still empty
StaleFlushHandledAfterReset ==
    /\ HotkeyOnly
    /\ state = RECORDING
    /\ actor["poll"] = "idle"
    /\ session.stop = "none"
    /\ transcript_so_far = <<>>
    /\ \E k \in 1..Len(incremental_temps) :
          /\ incremental_temps[k] \notin Range(SessionAudio)
          /\ AsrText(incremental_temps[k]) # <<>>

\* C23: state, the transcript accumulator, the temp-artifact list and the
\* processing-done flag are written only by the poll thread or by a worker
\* thread; a worker writes them only while the state is Processing and while
\* the poll thread is not inside a toggle.
SingleWriter ==
    [][<<state, transcript_so_far, incremental_temps, processing_done>>'
           # <<state, transcript_so_far, incremental_temps, processing_done>> =>
          \/ actor'["poll"] # actor["poll"]
          \/ /\ \E j \in 1..Len(workers) : WorkerStep(j)
             /\ state = PROCESSING
             /\ actor["poll"] \in {"idle", "clear", "dead"}]_vars

\* C24: the latest hotkey request is never lost: a posted action stays in the
\* slot until a poll tick takes it, so whenever the slot is filled the poll
\* thread eventually empties it and invokes the toggle.
LatestPostInvoked == pending_action ~> ~pending_action

\* C25: when Recorder.start() raises a device error, the start action is
\* aborted: the state is Recording only while a start() is still in progress,
\* never afterwards with no capture stream and no loop, and the poll thread
\* lives on to dispatch later hotkey actions (runs with hotkey toggles only).
DeviceErrorAborts ==
    (~device /\ HotkeyOnly) =>
        /\ actor["poll"] # "dead"
        /\ (state = RECORDING /\ \A a \in {"menu", "poll"} : actor[a] # "rstart") =>
               (stream # NoStream /\ loops # <<>>)

\* the place of a collaborator call in the pipeline's order; the error notice
\* comes after every step
StepRank(op) ==
    CASE op = "ensure_model" -> 1
      [] op = "summarize" -> 2
      [] op = "save_transcript" -> 3
      [] op = "copy_to_clipboard" -> 4
      [] op = "show_notification" -> 5
      [] op = "auto_paste" -> 6
      [] OTHER -> 7

\* the calls of every worker thread, running or ended
CallHistories == {workers[j].calls : j \in 1..Len(workers)} \cup {finished.calls}

\* C26: in every pipeline run the collaborator calls follow the order
\* ensure-model, summarize, persist, clipboard, notice, paste; an error notice
\* carries a message, is the only one, and nothing is called after it; a run
\* that has ended without reaching its last step has emitted that notice.
FailureCaughtOnce ==
    /\ \A h \in CallHistories :
          /\ \A k \in 1..Len(h) - 1 : StepRank(h[k].op) < StepRank(h[k + 1].op)
          /\ \A k \in 1..Len(h) :
                h[k].op = "show_notification_error" => (k = Len(h) /\ h[k].msg # "")
    /\ finished.any =>
          /\ finished.calls # <<>>
          /\ finished.calls[Len(finished.calls)].op
                \in {"show_notification_error", "show_notification", "auto_paste"}

\* a pipeline whose stop() returned the tail and whose tail transcription
\* raised has ended with that one error notice and no later step
FailedStepNoticedOnce ==
    /\ finished.any
    /\ finished.audio # <<>>
    /\ finished.calls = <<ErrorNotice("unexpected keyword argument")>>

\* C27: in external mode start() returns the default address and spawns and
\* tracks nothing, no process is ever tracked (running stays false), and
\* stop() returns having changed nothing.
ExternalStartNoOp ==
    [][mode = "external" =>
          /\ process = NoProcess /\ ~running /\ spawned = 0
          /\ OllamaStart =>
                /\ outcome'.result = "returned"
                /\ outcome'.host = DefaultHost
                /\ UNCHANGED <<process, alive, spawned, mpc, now, registered>>
                /\ (~running)'
          /\ OllamaStop =>
                /\ outcome'.result = "returned"
                /\ ~outcome'.killed
                /\ UNCHANGED <<process, alive, spawned, mpc, now, registered>>]_vars

\* start() of an external-mode manager has returned the default address with
\* no process tracked
ExternalStartReturned ==
    /\ mode = "external"
    /\ outcome.op = "start"
    /\ outcome.result = "returned"
    /\ outcome.host = DefaultHost
    /\ process = NoProcess
    /\ alive = {}

FailedStartStillTracked ==
    [][(outcome.op = "start" /\ outcome.result = "TimeoutError") =>
          /\ process # NoProcess
          /\ process = spawned
          /\ registered
          /\ OllamaStop =>
                /\ process' = NoProcess
                /\ process \notin alive'
                /\ outcome'.result = "returned"]_vars

\* start() has raised the startup timeout while the spawned server is still
\* running and tracked
StartTimedOutServerAlive ==
    /\ outcome.op = "start"
    /\ outcome.result = "TimeoutError"
    /\ running
    /\ registered

====
